---- MODULE Spec2Model ----
(***************************************************************************)
(* Model of FittingExercise.ipynb: the concentration model func, the       *)
(* residual assembler leastsqfunc, the scipy.optimize.leastsq call and the *)
(* cell that derives optimized_parameters and standard_errors.             *)
(*                                                                         *)
(* Numbers.  A float is modelled as an exact rational, +Inf, -Inf or NaN,  *)
(* with numpy's (IEEE-754) rules for the non-finite cases.  The inputs are *)
(* taken on a grid on which exp is exact: every argument handed to exp is  *)
(* an integer multiple of ln 2, and exp(n ln 2) = 2^n.  Values are         *)
(* therefore written in reduced units: energies in units of R ln 2 kelvin  *)
(* (the gas constant is 1 in these units), exponents in units of ln 2 and  *)
(* logA in units of log10(2), so that 10**logA = 2^logA.  A float64 holds  *)
(* 2^n for -1074 <= n <= 1023: exp overflows to +Inf above that range and  *)
(* underflows to 0 below it.                                               *)
(***************************************************************************)
EXTENDS Integers, Sequences, FiniteSets, TLC

----------------------------------------------------------------------------
(* Bounds of the input grid *)
MaxTemp == 2
MaxEnergy == 2
MaxEntropy == 1
MaxLogA == 1
MaxTime == 2
MaxConc == 2
MaxExpArg == 20
Huge == 6000
MaxExperiments == 4

----------------------------------------------------------------------------
(* Floats *)
RECURSIVE GCD(_, _)
GCD(a, b) == IF b = 0 THEN a ELSE GCD(b, a % b)

Abs(n) == IF n < 0 THEN -n ELSE n

TwoTo(n) == 2 ^ n

NaN == [k |-> "nan", n |-> 0, d |-> 0]
PInf == [k |-> "inf", n |-> 1, d |-> 0]
NInf == [k |-> "inf", n |-> -1, d |-> 0]

Fin(p, q) ==
  LET s == IF q < 0 THEN -1 ELSE 1
      g == GCD(Abs(p), Abs(q))
  IN  [k |-> "fin", n |-> (s * p) \div g, d |-> (s * q) \div g]

I(n) == [k |-> "fin", n |-> n, d |-> 1]
Zero == I(0)
One == I(1)

IsFinite(a) == a.k = "fin"
IsNaN(a) == a.k = "nan"
Sign(a) == IF a.n < 0 THEN -1 ELSE IF a.n > 0 THEN 1 ELSE 0
InfOf(s) == IF s < 0 THEN NInf ELSE PInf

Neg(a) == IF a.k = "nan" THEN NaN ELSE [a EXCEPT !.n = -a.n]

Add(a, b) ==
  CASE a.k = "nan" \/ b.k = "nan" -> NaN
    [] a.k = "inf" /\ b.k = "inf" -> IF a.n = b.n THEN a ELSE NaN
    [] a.k = "inf" -> a
    [] b.k = "inf" -> b
    [] OTHER -> LET g == GCD(a.d, b.d)
                IN  Fin(a.n * (b.d \div g) + b.n * (a.d \div g), (a.d \div g) * b.d)

Sub(a, b) == Add(a, Neg(b))

Mul(a, b) ==
  CASE a.k = "nan" \/ b.k = "nan" -> NaN
    [] a.k = "inf" \/ b.k = "inf" ->
         IF Sign(a) * Sign(b) = 0 THEN NaN ELSE InfOf(Sign(a) * Sign(b))
    [] OTHER -> LET g1 == GCD(Abs(a.n), b.d)
                    g2 == GCD(Abs(b.n), a.d)
                IN  Fin((a.n \div g1) * (b.n \div g2), (a.d \div g2) * (b.d \div g1))

(* numpy division: x/0 is +-Inf, 0/0 and Inf/Inf are NaN (a warning, no exception) *)
Div(a, b) ==
  CASE a.k = "nan" \/ b.k = "nan" -> NaN
    [] a.k = "inf" /\ b.k = "inf" -> NaN
    [] a.k = "inf" -> InfOf(a.n * (IF Sign(b) < 0 THEN -1 ELSE 1))
    [] b.k = "inf" -> Zero
    [] b.n = 0 -> IF a.n = 0 THEN NaN ELSE InfOf(Sign(a))
    [] OTHER -> Mul(a, Fin(b.d, b.n))

(* a < b; false when either is NaN *)
Less(a, b) ==
  CASE a.k = "nan" \/ b.k = "nan" -> FALSE
    [] a.k = "inf" /\ b.k = "inf" -> a.n < b.n
    [] a.k = "inf" -> a.n < 0
    [] b.k = "inf" -> b.n > 0
    [] OTHER -> LET g == GCD(a.d, b.d)
                IN  a.n * (b.d \div g) < b.n * (a.d \div g)

Leq(a, b) == Less(a, b) \/ (a = b /\ a.k # "nan")

(* numpy.exp on the grid: the argument is n ln 2 *)
exp(a) ==
  CASE a.k = "nan" -> NaN
    [] a.k = "inf" -> IF a.n > 0 THEN PInf ELSE Zero
    [] a.k = "fin" /\ a.d = 1 /\ a.n >= 1024 -> PInf
    [] a.k = "fin" /\ a.d = 1 /\ a.n < -1074 -> Zero
    [] a.k = "fin" /\ a.d = 1 /\ a.n >= 0 /\ a.n < 1024 -> I(TwoTo(a.n))
    [] a.k = "fin" /\ a.d = 1 /\ a.n < 0 /\ a.n >= -1074 -> Fin(1, TwoTo(-a.n))

(* 10**logA, logA in units of log10(2) *)
pow10(a) == exp(a)

(* exp is exact and representable in the model at this argument *)
ExpOnGrid(a) ==
  a.k # "fin" \/ (a.d = 1 /\ (Abs(a.n) <= MaxExpArg \/ Abs(a.n) >= 1075))

----------------------------------------------------------------------------
(* func(t, C_0, T, logA, E_a, dH, dS): the concentration model *)
R == 1

(* (dH - T * dS)/(R*T), the argument of the three exp calls on dH and dS *)
DeltaG_RT(T, dH, dS) == Div(Sub(dH, Mul(T, dS)), Mul(I(R), T))

func_C_1(C_0, T, dH, dS) ==
  Sub(C_0, Div(C_0, Add(exp(DeltaG_RT(T, dH, dS)), One)))

(* mutant: the equilibrium constant taken as exp(-(dH - T*dS)/(R*T)) *)
func_x_negated(C_0, T, dH, dS) ==
  Div(C_0, Add(exp(Neg(DeltaG_RT(T, dH, dS))), One))

func_x(C_0, T, dH, dS) ==
  Div(C_0, Add(exp(DeltaG_RT(T, dH, dS)), One))

(* t * 10**(logA) * exp(-E_a/(R*T)) * (-1) * (1 + 1/exp((dH-T*dS)/(R*T))), left to right *)
(* mutant: the rate's 1/Kc taken with the opposite sign convention to x's Kc *)
func_rate_arg_mixed(t, T, logA, E_a, dH, dS) ==
  Mul(Mul(Mul(Mul(t, pow10(logA)), exp(Div(Neg(E_a), Mul(I(R), T)))), I(-1)),
      Add(One, Div(One, exp(Neg(DeltaG_RT(T, dH, dS))))))

func_rate_arg(t, T, logA, E_a, dH, dS) ==
  Mul(Mul(Mul(Mul(t, pow10(logA)), exp(Div(Neg(E_a), Mul(I(R), T)))), I(-1)),
      Add(One, Div(One, exp(DeltaG_RT(T, dH, dS)))))

func_exponential(t, T, logA, E_a, dH, dS) ==
  exp(func_rate_arg(t, T, logA, E_a, dH, dS))

func(t, C_0, T, logA, E_a, dH, dS) ==
  Add(func_x(C_0, T, dH, dS),
      Mul(func_C_1(C_0, T, dH, dS), func_exponential(t, T, logA, E_a, dH, dS)))

(* every exp call of func is on the grid for these arguments *)
FuncOnGrid(t, T, logA, E_a, dH, dS) ==
  /\ ExpOnGrid(DeltaG_RT(T, dH, dS))
  /\ ExpOnGrid(logA)
  /\ ExpOnGrid(Div(Neg(E_a), Mul(I(R), T)))
  /\ ExpOnGrid(func_rate_arg(t, T, logA, E_a, dH, dS))

----------------------------------------------------------------------------
(* leastsqfunc(parameters, *arguments): the residual assembler.  It reads the
   module-level n1 and n2; arguments = (tcombined, C_A, C_0, T, (n1, n1+n2)). *)

(* mutant: a slice that takes in the position before its lower bound *)
Slice_closed(lo, hi, L) == {i \in 1 .. L : lo <= i /\ i <= hi}

(* the 1-based positions of the numpy slice [lo:hi] of a vector of length L,
   0 <= lo, 0 <= hi *)
Slice(lo, hi, L) == {i \in 1 .. L : lo < i /\ i <= hi}

(* the experiment whose C_0 and T a slot is computed with: lines 272-274, the
   later assignment winning where two slices overlap *)
SlotExperiment(i, L, n1v, n2v) ==
  IF i \in Slice(n2v, L, L) THEN 3
  ELSE IF i \in Slice(n1v, n2v, L) THEN 2
  ELSE IF i \in Slice(0, n1v, L) THEN 1
  ELSE 0

(* how many of the three slice assignments write slot i *)
SlotWrites(i, L, n1v, n2v) ==
  (IF i \in Slice(0, n1v, L) THEN 1 ELSE 0)
  + (IF i \in Slice(n1v, n2v, L) THEN 1 ELSE 0)
  + (IF i \in Slice(n2v, L, L) THEN 1 ELSE 0)

(* mutant: the buffer sized from the slice bounds instead of tcombined *)
C_A_fit_shape_fixed(tcombined, n1v, n2v) == n1v + n2v

(* C_A_fit = np.empty(tcombined.shape) *)
C_A_fit_shape(tcombined, n1v, n2v) == Len(tcombined)

(* mutant: the third slice computed with the first experiment's C_0 and T *)
C_A_fit_value_first(i, parameters, arguments, n1v, n2v, garbage) ==
  LET e == SlotExperiment(i, Len(arguments.tcombined), n1v, n2v)
      k == IF e = 3 THEN 1 ELSE e
  IN  IF e = 0 THEN garbage
      ELSE func(I(arguments.tcombined[i]), I(arguments.C_0[k]), I(arguments.T[k]),
                I(parameters[1]), I(parameters[2]), I(parameters[3]), I(parameters[4]))

(* slot i of C_A_fit after lines 272-274; a slot no slice covers keeps what
   np.empty left there *)
C_A_fit_value(i, parameters, arguments, n1v, n2v, garbage) ==
  LET e == SlotExperiment(i, Len(arguments.tcombined), n1v, n2v)
  IN  IF e = 0 THEN garbage
      ELSE func(I(arguments.tcombined[i]), I(arguments.C_0[e]), I(arguments.T[e]),
                I(parameters[1]), I(parameters[2]), I(parameters[3]), I(parameters[4]))

(* mutant: predicted minus observed *)
residual_reversed(C_A, C_A_fit) ==
  LET La == Len(C_A)
      Lf == Len(C_A_fit)
  IN  IF La = Lf THEN [i \in 1 .. Lf |-> Sub(C_A_fit[i], I(C_A[i]))]
      ELSE IF La = 1 THEN [i \in 1 .. Lf |-> Sub(C_A_fit[i], I(C_A[1]))]
      ELSE [i \in 1 .. La |-> Sub(C_A_fit[1], I(C_A[i]))]

(* C_A - C_A_fit, numpy broadcasting a vector of length 1 *)
residual(C_A, C_A_fit) ==
  LET La == Len(C_A)
      Lf == Len(C_A_fit)
  IN  IF La = Lf THEN [i \in 1 .. Lf |-> Sub(I(C_A[i]), C_A_fit[i])]
      ELSE IF La = 1 THEN [i \in 1 .. Lf |-> Sub(I(C_A[1]), C_A_fit[i])]
      ELSE [i \in 1 .. La |-> Sub(I(C_A[i]), C_A_fit[1])]

(* the outcome of one call: the exception raised, if any, the buffer C_A_fit
   and the returned vector *)
leastsqfunc(parameters, arguments, n1v, n2v, garbage) ==
  LET L == C_A_fit_shape(arguments.tcombined, n1v, n2v)
      La == Len(arguments.C_A)
      fit == [i \in 1 .. L |->
                C_A_fit_value(i, parameters, arguments, n1v, n2v, garbage)]
  IN  IF Len(arguments.C_0) < 3 \/ Len(arguments.T) < 3
      THEN [exc |-> "IndexError", C_A_fit |-> <<>>, ret |-> <<>>]
      ELSE IF La # L /\ La # 1 /\ L # 1
      THEN [exc |-> "ValueError", C_A_fit |-> fit, ret |-> <<>>]
      ELSE [exc |-> "", C_A_fit |-> fit, ret |-> residual(arguments.C_A, fit)]

(* every exp call the three slices can make is on the grid: the times are
   multiples of the first one and the argument of the outer exp is linear in t,
   so the first and the largest time decide for all of them *)
LeastsqOnGrid(parameters, arguments) ==
  LET ts == arguments.tcombined
      tmax == CHOOSE t \in {ts[i] : i \in DOMAIN ts} : \A i \in DOMAIN ts : ts[i] <= t
  IN  \/ ts = <<>>
      \/ /\ \A i \in DOMAIN ts : ts[i] % ts[1] = 0
         /\ \A T \in {arguments.T[e] : e \in DOMAIN arguments.T} :
              \A t \in {ts[1], tmax} :
                FuncOnGrid(I(t), I(T), I(parameters[1]), I(parameters[2]),
                           I(parameters[3]), I(parameters[4]))

----------------------------------------------------------------------------
(* Input sets *)
Times == 1 .. MaxTime
Concs == 1 .. MaxConc
Temps == 1 .. MaxTemp
LogAs == (-MaxLogA .. MaxLogA) \cup {-Huge, Huge}
Energies == (-MaxEnergy .. MaxEnergy) \cup {-Huge, Huge}
Entropies == -MaxEntropy .. MaxEntropy

----------------------------------------------------------------------------
VARIABLES
  fn_pc,      \* "idle" | "returned": a call of func
  fn_args,    \* the arguments of that call (t a vector, as numpy passes it)
  fn_frame,   \* func's locals C_1, x and exponential at its return
  fn_ret,     \* the returned vector
  experiments,  \* the list of ExperimentData
  n1,         \* module-level n1
  n2,         \* module-level n2
  lsq_pc,     \* "idle" | "returned" | "raised": a call of leastsqfunc
  lsq_parameters,  \* its first argument
  lsq_arguments,   \* its *arguments
  lsq_C_A_fit,     \* its local buffer C_A_fit
  lsq_ret,         \* the returned vector
  lsq_exc,         \* the exception it raised, "" if none
  lsq_prev,        \* what the call before this one returned, None if there was none
  fit_pc,      \* "idle" | "lmdif" | "fitted" | "reported" | "raised": the fit cells
  parameters_0,  \* the starting point handed to leastsq
  fit_x,       \* leastsq's current iterate
  fit_nfev,    \* calls of leastsqfunc made by leastsq so far
  result,      \* leastsq's result, None until it returns
  cov,         \* leastsq's cov_x: None or a 4x4 matrix
  ier,         \* leastsq's ier
  stderr,      \* np.sqrt(np.diag(cov))
  optimized_parameters,  \* ParameterSet
  standard_errors,       \* ParameterSet
  perr_leastsq,          \* the second error estimate
  fit_exc,     \* the exception that ended the cell, "" if none
  starting_guess,  \* ParameterSet
  bound,       \* the names the executed cells have bound so far
  printed      \* what the last cell printed: the three ParameterSets

fn_vars == <<fn_pc, fn_args, fn_frame, fn_ret>>
lsq_vars == <<experiments, n1, n2, lsq_pc, lsq_parameters, lsq_arguments, lsq_C_A_fit, lsq_ret,
              lsq_exc, lsq_prev>>
fit_vars == <<fit_pc, parameters_0, fit_x, fit_nfev, result, cov, ier, stderr,
              optimized_parameters, standard_errors, perr_leastsq, fit_exc>>
nb_vars == <<starting_guess, bound, printed>>
vars == <<fn_vars, lsq_vars, fit_vars, nb_vars>>

NoArgs == [t |-> <<>>, C_0 |-> 0, T |-> 0, logA |-> 0, E_a |-> 0, dH |-> 0, dS |-> 0]
NoArguments == [tcombined |-> <<>>, C_A |-> <<>>, C_0 |-> <<>>, T |-> <<>>, slots |-> <<>>]

(* no call of func is modelled *)
FuncOff ==
  /\ fn_pc = "off"
  /\ fn_args = NoArgs
  /\ fn_frame = [C_1 |-> Zero, x |-> Zero, exponential |-> <<>>]
  /\ fn_ret = <<>>

(* no call of leastsqfunc is modelled; n1 and n2 as lines 256-257 set them *)
LeastsqOff ==
  /\ experiments = <<>>
  /\ n1 = 10
  /\ n2 = 20
  /\ lsq_pc = "off"
  /\ lsq_parameters = <<>>
  /\ lsq_arguments = NoArguments
  /\ lsq_C_A_fit = <<>>
  /\ lsq_ret = <<>>
  /\ lsq_exc = ""
  /\ lsq_prev = <<>>

None == <<>>
ParameterSet(logA, Ea, dH, dS) == [logA |-> logA, Ea |-> Ea, dH |-> dH, dS |-> dS]

(* nothing fitted yet: the placeholders ParameterSet(0,0,0,0) of the notebook *)
FitUnset ==
  /\ fit_x = None
  /\ fit_nfev = 0
  /\ result = None
  /\ cov = None
  /\ ier = 0
  /\ stderr = None
  /\ optimized_parameters = ParameterSet(Zero, Zero, Zero, Zero)
  /\ standard_errors = ParameterSet(Zero, Zero, Zero, Zero)
  /\ perr_leastsq = None
  /\ fit_exc = ""

(* the fit cells are not modelled *)
FitOff ==
  /\ fit_pc = "off"
  /\ parameters_0 = None
  /\ FitUnset

(* the order of the notebook's cells is not modelled *)
NotebookOff ==
  /\ starting_guess = ParameterSet(Zero, Zero, Zero, Zero)
  /\ bound = {}
  /\ printed = <<>>

NoFrame == [C_1 |-> Zero, x |-> Zero, exponential |-> <<>>]

(* time vectors starting at 0, equally spaced *)
TimeVectors == {<<0, t, 2 * t>> : t \in Times}

FuncInputs ==
  [t : TimeVectors, C_0 : Concs, T : Temps, logA : LogAs, E_a : Energies,
   dH : Energies, dS : Entropies]

InitFunc ==
  /\ fn_pc = "idle"
  /\ fn_args \in FuncInputs
  /\ fn_frame = NoFrame
  /\ fn_ret = <<>>
  /\ LeastsqOff
  /\ FitOff
  /\ NotebookOff

(* one call of func on the time vector t; C_1, x and exponential are its locals *)
CallFunc ==
  LET a == fn_args
  IN  /\ fn_pc = "idle"
      /\ \A i \in DOMAIN a.t :
           FuncOnGrid(I(a.t[i]), I(a.T), I(a.logA), I(a.E_a), I(a.dH), I(a.dS))
      /\ fn_pc' = "returned"
      /\ fn_frame' = [C_1 |-> func_C_1(I(a.C_0), I(a.T), I(a.dH), I(a.dS)),
                      x |-> func_x(I(a.C_0), I(a.T), I(a.dH), I(a.dS)),
                      exponential |-> [i \in DOMAIN a.t |->
                         func_exponential(I(a.t[i]), I(a.T), I(a.logA), I(a.E_a),
                                          I(a.dH), I(a.dS))]]
      /\ fn_ret' = [i \in DOMAIN a.t |->
                      func(I(a.t[i]), I(a.C_0), I(a.T), I(a.logA), I(a.E_a),
                           I(a.dH), I(a.dS))]
      /\ UNCHANGED <<fn_args, lsq_vars, fit_vars, nb_vars>>

NextFunc == CallFunc

SpecFunc == InitFunc /\ [][NextFunc]_vars

----------------------------------------------------------------------------
(* Calls of leastsqfunc *)

(* the time vector of one experiment with c observations, spaced t0 apart
   (strictly increasing, the first above 0) *)
ExperimentTimes(c, t0) == [j \in 1 .. c |-> t0 * j]

RECURSIVE Concat(_)
Concat(ss) == IF ss = <<>> THEN <<>> ELSE Head(ss) \o Concat(Tail(ss))

(* observed concentrations that differ from slot to slot *)
Observed(c, c0) == [j \in 1 .. c |-> c0 + ((j * j + c0) % 5)]

(* observation counts per experiment: the notebook's 10 each, for 1 to
   MaxExperiments experiments, and three experiments of different sizes *)
Layouts ==
  {[e \in 1 .. E |-> 10] : E \in 1 .. MaxExperiments} \cup {<<5, 10, 15>>}

(* temperatures per experiment: isothermal, alternating, first one different *)
TempTuples(E) ==
  {[e \in 1 .. E |-> 1], [e \in 1 .. E |-> 2],
   [e \in 1 .. E |-> IF e % 2 = 1 THEN 1 ELSE 2],
   [e \in 1 .. E |-> IF e = 1 THEN 2 ELSE 1]}

(* experiments = [ExperimentData(T, cA_start, times, cA), ...]; with short the
   last experiment has one concentration fewer than it has times *)
ExperimentList(layout, Ts, t0, short) ==
  [e \in DOMAIN layout |->
     [T |-> Ts[e], cA_start |-> e, times |-> ExperimentTimes(layout[e], t0),
      cA |-> IF short /\ e = Len(layout)
             THEN Observed(layout[e] - 1, e) ELSE Observed(layout[e], e)]]

ExperimentLists ==
  {ExperimentList(lT[1], lT[2], t0, short) :
      lT \in UNION {{<<l, tt>> : tt \in TempTuples(Len(l))} : l \in Layouts},
      t0 \in {1, 2}, short \in BOOLEAN}

(* arguments = (tcombined, C_A, C_0, T, (n1, n1+n2)), written out from the
   experiments' data *)
ArgumentsOf(exps) ==
  [tcombined |-> Concat([e \in DOMAIN exps |-> exps[e].times]),
   C_A |-> Concat([e \in DOMAIN exps |-> exps[e].cA]),
   C_0 |-> [e \in DOMAIN exps |-> exps[e].cA_start],
   T |-> [e \in DOMAIN exps |-> exps[e].T],
   slots |-> <<10, 30>>]

(* parameter vectors: finite ones, and ones that overflow or underflow one or
   two of func's exp and power calls *)
LsqParameters ==
  {<<logA, E_a, dH, dS>> : logA \in {-1, 0}, E_a \in {0, 2}, dH \in {0, 2}, dS \in {0, 1}}
  \cup {<<Huge, 0, 0, 0>>, <<-Huge, 0, 0, 0>>, <<0, Huge, 0, 0>>, <<0, -Huge, 0, 0>>,
        <<0, 0, Huge, 0>>, <<0, 0, -Huge, 0>>, <<-Huge, -Huge, 0, 0>>,
        <<0, Huge, -Huge, 0>>}

(* what np.empty may leave in a slot: anything; nothing when every slot is
   written before it is read *)
Garbage == {Zero, One, NaN}
UnwrittenContent(L, n1v, n2v) ==
  IF \A i \in 1 .. L : SlotWrites(i, L, n1v, n2v) > 0 THEN {Zero} ELSE Garbage

InitResid ==
  /\ FuncOff
  /\ FitOff
  /\ NotebookOff
  /\ n1 = 10
  /\ n2 = 20
  /\ lsq_pc = "idle"
  /\ lsq_parameters \in LsqParameters
  /\ experiments \in ExperimentLists
  /\ lsq_arguments = ArgumentsOf(experiments)
  /\ lsq_C_A_fit = <<>>
  /\ lsq_ret = <<>>
  /\ lsq_exc = ""
  /\ lsq_prev = <<>>

(* one call leastsqfunc(parameters, *arguments) *)
CallLeastsq ==
  /\ lsq_pc = "idle"
  /\ LeastsqOnGrid(lsq_parameters, lsq_arguments) = TRUE
  /\ \E garbage \in UnwrittenContent(Len(lsq_arguments.tcombined), n1, n2) :
       LET r == leastsqfunc(lsq_parameters, lsq_arguments, n1, n2, garbage)
       IN  /\ lsq_pc' = IF r.exc = "" THEN "returned" ELSE "raised"
           /\ lsq_C_A_fit' = r.C_A_fit
           /\ lsq_ret' = r.ret
           /\ lsq_exc' = r.exc
  /\ UNCHANGED <<experiments, n1, n2, lsq_parameters, lsq_arguments, lsq_prev, fn_vars,
                 fit_vars, nb_vars>>

NextResid == CallLeastsq

SpecResid == InitResid /\ [][NextResid]_vars


----------------------------------------------------------------------------
(* Statements about leastsqfunc *)
LsqReturned == lsq_pc = "returned"
LsqCalled == lsq_pc \in {"returned", "raised"}

RECURSIVE SumSeq(_)
SumSeq(ns) == IF ns = <<>> THEN 0 ELSE Head(ns) + SumSeq(Tail(ns))

ObservationCounts == [e \in DOMAIN experiments |-> Len(experiments[e].times)]
TotalObservations == SumSeq(ObservationCounts)
(* the slot before experiment e's first observation *)
Offset(e) == SumSeq(SubSeq(ObservationCounts, 1, e - 1))

(* every experiment has as many concentrations as times *)
WellFormedArguments ==
  \A e \in DOMAIN experiments : Len(experiments[e].cA) = Len(experiments[e].times)

(* the notebook's layout: three experiments of ten observations *)
NotebookLayout == ObservationCounts = <<10, 10, 10>>

Predicted(t, C_0, T) ==
  func(I(t), I(C_0), I(T), I(lsq_parameters[1]), I(lsq_parameters[2]),
       I(lsq_parameters[3]), I(lsq_parameters[4]))

(* C1: the residual vector holds observed minus predicted.  Slots 0..9 use
   C_0[0]/T[0], slots 10..19 C_0[1]/T[1], slots 20.. C_0[2]/T[2], each with its
   own time and its own observed value; and for three experiments of ten
   observations this is, for every experiment e in list order and every
   observation i of e, e.cA[i] - func(e.times[i], e.cA_start, e.T, parameters)
   at slot 10*e + i. *)
C1_ResidualSlots ==
  (LsqReturned /\ WellFormedArguments) =>
    /\ \A i \in DOMAIN lsq_ret :
         LET k == IF i <= 10 THEN 1 ELSE IF i <= 20 THEN 2 ELSE 3
         IN  lsq_ret[i] = Sub(I(lsq_arguments.C_A[i]),
                              Predicted(lsq_arguments.tcombined[i],
                                        lsq_arguments.C_0[k], lsq_arguments.T[k]))
    /\ NotebookLayout =>
         /\ Len(lsq_ret) = 30
         /\ \A e \in DOMAIN experiments :
              \A i \in DOMAIN experiments[e].times :
                lsq_ret[Offset(e) + i] =
                  Sub(I(experiments[e].cA[i]),
                      Predicted(experiments[e].times[i], experiments[e].cA_start,
                                experiments[e].T))

(* three experiments of ten observations at different temperatures and initial
   concentrations, finite residuals that differ from slot to slot *)
C1_Witness ==
  /\ LsqReturned /\ WellFormedArguments /\ NotebookLayout
  /\ lsq_arguments.T[1] # lsq_arguments.T[2]
  /\ \A i \in DOMAIN lsq_ret : IsFinite(lsq_ret[i])
  /\ lsq_ret[1] # lsq_ret[11] /\ lsq_ret[11] # lsq_ret[21] /\ lsq_ret[1] # lsq_ret[2]
  /\ Predicted(lsq_arguments.tcombined[21], lsq_arguments.C_0[3], lsq_arguments.T[3])
       # Predicted(lsq_arguments.tcombined[21], lsq_arguments.C_0[1], lsq_arguments.T[1])

(* C2 as stated: for any non-empty list of experiments the call returns a vector
   as long as the experiments' observation counts together. *)
C2_AsStated ==
  (LsqCalled /\ WellFormedArguments /\ experiments # <<>>) =>
    (LsqReturned /\ Len(lsq_ret) = TotalObservations)

(* C2, amended: for a list of at least three experiments, of any (possibly
   different) observation counts, the returned vector is as long as the
   experiments' observation counts together; for a list of one or two experiments
   leastsqfunc raises IndexError (C_0[1], C_0[2]) and returns nothing. *)
C2_ResidualLength ==
  (LsqCalled /\ WellFormedArguments) =>
    IF Len(experiments) >= 3
    THEN LsqReturned /\ Len(lsq_ret) = TotalObservations
    ELSE lsq_pc = "raised" /\ lsq_exc = "IndexError" /\ lsq_ret = <<>>

(* experiments of different sizes, and more than three experiments *)
C2_Witness ==
  /\ LsqReturned /\ WellFormedArguments
  /\ ObservationCounts = <<5, 10, 15>>
  /\ Len(lsq_ret) = 30

(* C9: a parameter vector that makes func's output non-finite never gives a
   residual vector that holds NaN or Inf (the call fails instead). *)
C9_AsStated ==
  LsqReturned => \A i \in DOMAIN lsq_ret : IsFinite(lsq_ret[i])

(* C19: for a combined time vector of length L >= 20 the three slices [0,n1),
   [n1,n2), [n2,L) with the module-level n1 = 10 and n2 = 20 are pairwise
   disjoint and cover every slot, so each slot of C_A_fit is written exactly
   once, with func's value, before the subtraction; the bounds are not the fifth
   element (10, 30) of arguments: slot 20 already belongs to the third slice. *)
C19_SlicesPartition ==
  LET L == Len(lsq_arguments.tcombined)
      s1 == Slice(0, n1, L)
      s2 == Slice(n1, n2, L)
      s3 == Slice(n2, L, L)
  IN  (LsqCalled /\ L >= 20) =>
        /\ n1 = 10 /\ n2 = 20
        /\ s1 \cap s2 = {} /\ s1 \cap s3 = {} /\ s2 \cap s3 = {}
        /\ s1 \cup s2 \cup s3 = 1 .. L
        /\ \A i \in 1 .. L : SlotWrites(i, L, n1, n2) = 1
        /\ lsq_arguments.slots = <<10, 30>>
        /\ L > 20 => 21 \in s3
        /\ LsqReturned =>
             /\ Len(lsq_C_A_fit) = L
             /\ \A i \in 1 .. L :
                  LET k == IF i \in s1 THEN 1 ELSE IF i \in s2 THEN 2 ELSE 3
                  IN  lsq_C_A_fit[i] =
                        Predicted(lsq_arguments.tcombined[i], lsq_arguments.C_0[k],
                                  lsq_arguments.T[k])

C19_Witness ==
  /\ LsqReturned
  /\ Len(lsq_arguments.tcombined) = 40
  /\ Len(lsq_C_A_fit) = 40
  /\ \A i \in DOMAIN lsq_C_A_fit : IsFinite(lsq_C_A_fit[i])
  /\ lsq_C_A_fit[10] # lsq_C_A_fit[11]

----------------------------------------------------------------------------
(* Two calls of leastsqfunc with the same parameters and the same arguments,
   the module-level names n1 and n2 rebound in between.  leastsqfunc has no
   local n1 or n2: it reads the module's at each call. *)

SliceBounds == {5, 10, 20}

PureExperimentLists ==
  {ExperimentList(<<10, 10, 10>>, Ts, 1, FALSE) : Ts \in TempTuples(3)}

InitPure ==
  /\ FuncOff
  /\ FitOff
  /\ NotebookOff
  /\ n1 = 10
  /\ n2 = 20
  /\ lsq_pc = "idle"
  /\ lsq_parameters \in LsqParameters
  /\ experiments \in PureExperimentLists
  /\ lsq_arguments = ArgumentsOf(experiments)
  /\ lsq_C_A_fit = <<>>
  /\ lsq_ret = <<>>
  /\ lsq_exc = ""
  /\ lsq_prev = <<>>

(* some other cell assigns n1 and n2; the first call's vector is kept aside and
   the same call is made ready again *)
RebindSlices ==
  /\ lsq_pc = "returned"
  /\ lsq_prev = <<>>
  /\ n1' \in SliceBounds
  /\ n2' \in SliceBounds
  /\ lsq_prev' = lsq_ret
  /\ lsq_pc' = "idle"
  /\ lsq_C_A_fit' = <<>>
  /\ lsq_ret' = <<>>
  /\ UNCHANGED <<experiments, lsq_parameters, lsq_arguments, lsq_exc, fn_vars, fit_vars,
                 nb_vars>>

NextPure == CallLeastsq \/ RebindSlices

SpecPure == InitPure /\ [][NextPure]_vars

(* C12: two calls of leastsqfunc with identical parameters and arguments return
   identical vectors, whatever was assigned to the module-level n1 and n2
   between them. *)
C12_AsStated ==
  (LsqReturned /\ lsq_prev # <<>> /\ \A k \in 1 .. 4 : Abs(lsq_parameters[k]) < Huge)
    => lsq_ret = lsq_prev

(* with n1 and n2 as they were, the second call returns the first one's vector *)
C12_SameGlobals ==
  (LsqReturned /\ lsq_prev # <<>> /\ n1 = 10 /\ n2 = 20) => lsq_ret = lsq_prev

----------------------------------------------------------------------------
(* The fit: scipy.optimize.leastsq(leastsqfunc, parameters_0, args=arguments,
   full_output=1), then the cell that derives the standard errors.

   leastsq first calls leastsqfunc once at parameters_0 to learn the length M of
   the residual vector (an exception raised by leastsqfunc propagates) and raises
   TypeError when the 4 parameters exceed M.  It then evaluates leastsqfunc at
   further points; which points, and which of them becomes the iterate, is
   MINPACK's business and is left open here, except that a point whose residuals
   are not all finite never passes MINPACK's reduction test.  With full_output it
   returns whatever ier it stopped with; cov_x is None unless ier is 1..4 and
   the matrix could be inverted. *)

MaxFev == 3

(* the largest whole number between lo and hi whose square is at most n, by
   bisection *)
RECURSIVE Root(_, _, _)
Root(n, lo, hi) ==
  IF lo >= hi THEN lo
  ELSE LET mid == (lo + hi + 1) \div 2
       IN  IF mid <= n \div mid THEN Root(n, mid, hi) ELSE Root(n, lo, mid - 1)

(* np.sqrt of a whole number: exact where the root is a whole number, otherwise
   cut below to the decimals that SqrtScale leaves room for *)
SqrtScale(n) ==
  IF n < 2000 THEN 1000 ELSE IF n < 200000 THEN 100 ELSE IF n < 20000000 THEN 10 ELSE 1

np_sqrt(a) ==
  CASE a.k = "nan" -> NaN
    [] a.k = "pinf" -> PInf
    [] a.k = "ninf" -> NaN
    [] a.n < 0 -> NaN
    [] OTHER -> LET s == SqrtScale(a.n) IN Fin(Root(a.n * s * s, 0, a.n * s * s), s)

np_absolute(a) ==
  CASE a.k = "nan" -> NaN
    [] a.k \in {"pinf", "ninf"} -> PInf
    [] OTHER -> Fin(Abs(a.n), a.d)

(* mutant: round() towards minus infinity *)
round_down(a) == IF a.k # "fin" THEN a ELSE I(a.n \div a.d)

(* round(x) of a numpy float: to the nearest integer, halves to the even one *)
round(a) ==
  IF a.k # "fin" THEN a
  ELSE LET q == a.n \div a.d
           r == a.n % a.d
       IN  IF 2 * r < a.d THEN I(q)
           ELSE IF 2 * r > a.d THEN I(q + 1)
           ELSE IF q % 2 = 0 THEN I(q) ELSE I(q + 1)

np_diag(m) == [i \in DOMAIN m |-> m[i][i]]
Diagonal(d) == [i \in DOMAIN d |-> [j \in DOMAIN d |-> IF i = j THEN d[i] ELSE 0]]

(* what leastsq can hand back as cov_x when it has one *)
CovMatrices ==
  {Diagonal(<<d1, d2, 1000000, 9>>) :
      d1 \in {4, -4}, d2 \in {2250000, 6250000, -1000000}}

(* experiments handed to the fit: the notebook's three of ten observations,
   smaller ones, too few observations, unequal array lengths, temperatures <= 0 *)
FitExperimentLists ==
  {ExperimentList(<<10, 10, 10>>, Ts, 1, FALSE) : Ts \in {<<1, 2, 1>>, <<1, 1, 1>>}}
  \cup {ExperimentList(<<2, 2, 2>>, Ts, 1, short) :
          Ts \in {<<1, 2, 2>>, <<2, 2, 2>>, <<-1, -1, -1>>, <<0, 1, 2>>},
          short \in BOOLEAN}
  \cup {ExperimentList(<<1, 1, 1>>, <<1, 2, 1>>, 1, FALSE),
        ExperimentList(<<2, 2>>, <<1, 2>>, 1, FALSE)}

StartingPoints == {<<0, 0, 0, 0>>, <<1, 0, 0, 1>>}
FitCandidates ==
  {<<-1, 0, 0, 0>>, <<0, -2, 0, 0>>, <<0, 0, -2, 0>>, <<-Huge, -Huge, 0, 0>>}

InitFit ==
  /\ FuncOff
  /\ NotebookOff
  /\ n1 = 10
  /\ n2 = 20
  /\ lsq_pc = "off"
  /\ lsq_parameters = <<>>
  /\ lsq_C_A_fit = <<>>
  /\ lsq_ret = <<>>
  /\ lsq_exc = ""
  /\ lsq_prev = <<>>
  /\ experiments \in FitExperimentLists
  /\ lsq_arguments = ArgumentsOf(experiments)
  /\ parameters_0 \in StartingPoints
  /\ fit_pc = "idle"
  /\ FitUnset

FitFrame == UNCHANGED <<fn_vars, lsq_vars, parameters_0, nb_vars>>

(* leastsq's entry: the shape-finding call of leastsqfunc and the N > M test *)
LeastsqCheckFunc ==
  /\ fit_pc = "idle"
  /\ LeastsqOnGrid(parameters_0, lsq_arguments) = TRUE
  /\ \E garbage \in UnwrittenContent(Len(lsq_arguments.tcombined), n1, n2) :
       LET r == leastsqfunc(parameters_0, lsq_arguments, n1, n2, garbage)
       IN  /\ fit_nfev' = 1
           /\ IF r.exc # ""
              THEN fit_pc' = "raised" /\ fit_exc' = r.exc /\ fit_x' = fit_x
              ELSE IF 4 > Len(r.ret)
              THEN fit_pc' = "raised" /\ fit_exc' = "TypeError" /\ fit_x' = fit_x
              ELSE fit_pc' = "lmdif" /\ fit_exc' = "" /\ fit_x' = parameters_0
  /\ UNCHANGED <<result, cov, ier, stderr, optimized_parameters, standard_errors,
                 perr_leastsq>>
  /\ FitFrame

(* one more evaluation of leastsqfunc inside MINPACK *)
LeastsqIterate ==
  /\ fit_pc = "lmdif"
  /\ fit_nfev < MaxFev
  /\ \E p \in FitCandidates, accept \in BOOLEAN :
       /\ LeastsqOnGrid(p, lsq_arguments) = TRUE
       /\ \E garbage \in UnwrittenContent(Len(lsq_arguments.tcombined), n1, n2) :
            LET r == leastsqfunc(p, lsq_arguments, n1, n2, garbage)
            IN  fit_x' = IF accept /\ \A i \in DOMAIN r.ret : IsFinite(r.ret[i])
                         THEN p ELSE fit_x
  /\ fit_nfev' = fit_nfev + 1
  /\ UNCHANGED <<fit_pc, result, cov, ier, stderr, optimized_parameters,
                 standard_errors, perr_leastsq, fit_exc>>
  /\ FitFrame

(* leastsq returns; ier 5 means the evaluations ran out *)
LeastsqReturn ==
  /\ fit_pc = "lmdif"
  /\ \E info \in (1 .. 4) \cup (IF fit_nfev >= MaxFev THEN {5} ELSE {}) :
       /\ ier' = info
       /\ cov' \in (IF info \in 1 .. 4 THEN CovMatrices ELSE {}) \cup {None}
  /\ result' = fit_x
  /\ fit_pc' = "fitted"
  /\ UNCHANGED <<fit_x, fit_nfev, stderr, optimized_parameters, standard_errors,
                 perr_leastsq, fit_exc>>
  /\ FitFrame

(* mutant: the Ea and dH entries land in each other's field *)
RoundedParameters_swapped(v) ==
  ParameterSet(round(v[1]), round(Div(v[3], I(1000))),
               round(Div(v[2], I(1000))), round(v[4]))

(* ParameterSet(round(v[0]), round(v[1]/1000), round(v[2]/1000), round(v[3])) *)
RoundedParameters(v) ==
  ParameterSet(round(v[1]), round(Div(v[2], I(1000))),
               round(Div(v[3], I(1000))), round(v[4]))

(* the cell after the fit.  np.diag(None) raises ValueError.  round() of a NaN
   either gives NaN back or, where round() converts to int, raises ValueError:
   both builds exist. *)
StderrCellBody ==
  /\ IF cov = None
     THEN /\ fit_pc' = "raised"
          /\ fit_exc' = "ValueError"
          /\ UNCHANGED <<stderr, optimized_parameters, standard_errors, perr_leastsq>>
     ELSE LET se == [i \in 1 .. 4 |-> np_sqrt(I(np_diag(cov)[i]))]
          IN  /\ stderr' = se
              /\ optimized_parameters' = RoundedParameters([i \in 1 .. 4 |-> I(result[i])])
              /\ \E round_converts \in BOOLEAN :
                   IF round_converts /\ \E i \in 1 .. 4 : ~IsFinite(se[i])
                   THEN /\ fit_pc' = "raised"
                        /\ fit_exc' = "ValueError"
                        /\ UNCHANGED <<standard_errors, perr_leastsq>>
                   ELSE /\ fit_pc' = "reported"
                        /\ fit_exc' = ""
                        /\ standard_errors' = RoundedParameters(se)
                        /\ perr_leastsq' =
                             [i \in 1 .. Len(result) |->
                                np_sqrt(np_absolute(I(cov[i][i])))]
  /\ UNCHANGED <<fit_x, fit_nfev, result, cov, ier>>

StderrCell ==
  /\ fit_pc = "fitted"
  /\ StderrCellBody
  /\ FitFrame

NextFit == LeastsqCheckFunc \/ LeastsqIterate \/ LeastsqReturn \/ StderrCell

SpecFit == InitFit /\ [][NextFit]_vars

----------------------------------------------------------------------------
(* Statements about the fit *)
StderrCellRan == fit_pc = "reported" \/ (fit_pc = "raised" /\ result # None)
Isothermal ==
  \A e \in DOMAIN experiments : experiments[e].T = experiments[1].T
Placeholder == ParameterSet(Zero, Zero, Zero, Zero)

InvalidInput ==
  \/ SumSeq([e \in DOMAIN experiments |-> Len(experiments[e].cA)]) < 4
  \/ \E e \in DOMAIN experiments : Len(experiments[e].times) # Len(experiments[e].cA)
  \/ \E e \in DOMAIN experiments : experiments[e].T <= 0

(* C7: when leastsq has no covariance to return for a fit of experiments that
   are all at the same temperature, the standard-error cell does not crash and
   the best-fit parameters are still reported, with no standard errors
   computed from the missing covariance. *)
C7_AsStated ==
  (StderrCellRan /\ ~InvalidInput /\ Isothermal /\ cov = None) =>
    /\ fit_pc # "raised"
    /\ optimized_parameters = RoundedParameters([i \in 1 .. 4 |-> I(result[i])])
    /\ standard_errors = Placeholder

(* C8: whenever a diagonal entry of the covariance is negative, no standard
   errors are produced: no NaN from the square root of a negative number, no
   value from the absolute value of the diagonal. *)
C8_AsStated ==
  (StderrCellRan /\ ~InvalidInput /\ cov # None /\ \E i \in DOMAIN cov : cov[i][i] < 0) =>
    /\ standard_errors = Placeholder
    /\ perr_leastsq = None

(* C10: with fewer observations than parameters, with an experiment whose times
   and concentrations differ in length, or with a temperature <= 0, the fit
   fails before any solver iteration and produces no result. *)
C10_AsStated ==
  (InvalidInput /\ fit_pc # "idle") =>
    /\ fit_pc = "raised"
    /\ fit_x = None
    /\ result = None

(* C11: a fit that ran out of evaluations (ier = 5) ends as a normal,
   distinguishable outcome that carries the best iterate: the cells after the
   fit do not abort on it. *)
C11_AsStated ==
  (StderrCellRan /\ ~InvalidInput /\ ier = 5) =>
    /\ fit_exc = ""
    /\ optimized_parameters = RoundedParameters([i \in 1 .. 4 |-> I(result[i])])

(* the record the cell derives from the square roots of cov's diagonal, entry k
   from row/column k *)
RootsOfDiagonal == [k \in 1 .. 4 |-> np_sqrt(I(cov[k][k]))]
Fields(ps) == <<ps.logA, ps.Ea, ps.dH, ps.dS>>

(* C13: the reported standard errors are the square roots of the covariance
   diagonal, entry k belonging to parameter k (in the reporting units, rounded),
   and each of the four fields is non-negative. *)
C13_AsStated ==
  (fit_pc = "reported" /\ ~InvalidInput) =>
    /\ stderr = RootsOfDiagonal
    /\ standard_errors = RoundedParameters(RootsOfDiagonal)
    /\ \A k \in 1 .. 4 : Leq(Zero, Fields(standard_errors)[k])

(* C13 where no diagonal entry is negative *)
C13_NonNegativeDiagonal ==
  (fit_pc = "reported" /\ ~InvalidInput /\ \A k \in 1 .. 4 : cov[k][k] >= 0) =>
    /\ stderr = RootsOfDiagonal
    /\ standard_errors = RoundedParameters(RootsOfDiagonal)
    /\ \A k \in 1 .. 4 : Leq(Zero, Fields(standard_errors)[k])

----------------------------------------------------------------------------
(* The notebook: its cells, executed in any order and any number of times, on
   its literal data.  A cell that reads a name no executed cell has bound stops
   there with NameError, keeping what its earlier statements bound.  Decimal
   literals are held as whole numbers: concentrations in thousandths,
   temperatures in hundredths of a kelvin.

   What leastsq returns for the literal data is what the notebook recorded: the
   matrix printed by the fit cell (entries cut to whole numbers), and a result
   that the report cell turns into the recorded ParameterSet.  leastsq gives a
   matrix only with ier in 1..4. *)

(* t = np.arange(10, 110, 10) *)
Literal_t == [j \in 1 .. 10 |-> 10 * j]

(* mutant: two copies of t instead of three *)
Literal_tcombined_two == Literal_t \o Literal_t

(* tcombined = np.concatenate((t, t, t), axis = 0) *)
Literal_tcombined == Literal_t \o Literal_t \o Literal_t

Literal_C_A ==
  <<8649, 7441, 7141, 6366, 6215, 5990, 5852, 5615, 5481, 5644,
    7230, 6073, 5452, 5317, 5121, 4998, 4951, 4978, 5015, 5036,
    5137, 4568, 4548, 4461, 4382, 4525, 4483, 4565, 4459, 4635>>

Literal_experiments ==
  <<[T |-> 29815, cA_start |-> 10000,
     times |-> <<10, 20, 30, 40, 50, 60, 70, 80, 90, 100>>,
     cA |-> <<8649, 7441, 7141, 6366, 6215, 5990, 5852, 5615, 5481, 5644>>],
    [T |-> 30815, cA_start |-> 10000,
     times |-> <<10, 20, 30, 40, 50, 60, 70, 80, 90, 100>>,
     cA |-> <<7230, 6073, 5452, 5317, 5121, 4998, 4951, 4978, 5015, 5036>>],
    [T |-> 32315, cA_start |-> 10000,
     times |-> <<10, 20, 30, 40, 50, 60, 70, 80, 90, 100>>,
     cA |-> <<5137, 4568, 4548, 4461, 4382, 4525, 4483, 4565, 4459, 4635>>]>>

(* arguments = (tcombined, C_A, (10, 10, 10), (298.15, 308.15, 323.15), (n1, n1+n2)) *)
Literal_arguments(n1v, n2v) ==
  [tcombined |-> Literal_tcombined, C_A |-> Literal_C_A,
   C_0 |-> <<10000, 10000, 10000>>, T |-> <<29815, 30815, 32315>>,
   slots |-> <<n1v, n1v + n2v>>]

(* mutant: the energies of the starting point left in kJ/mol *)
Literal_parameters_0_kJ == <<6, 45, -10, -50>>

(* parameters_0 = [6, 45e3, -10e3, -50] *)
Literal_parameters_0 == <<6, 45000, -10000, -50>>

(* starting_guess = ParameterSet(logA = 6., Ea = 45., dH = -10., dS = -50.) *)
Literal_starting_guess == ParameterSet(I(6), I(45), I(-10), I(-50))

(* the printed cov *)
RecordedCov ==
  <<<<17, 99321, 13327, 43>>,
    <<99321, 578365117, 79857728, 255405>>,
    <<13327, 79857728, 79086054, 251297>>,
    <<43, 255405, 251297, 799>>>>

(* the printed ParameterSets *)
RecordedOptimized == ParameterSet(I(9), I(64), I(-12), I(-37))
RecordedStandardErrors == ParameterSet(I(4), I(24), I(9), I(28))

(* results that the report cell rounds to the recorded optimized_parameters *)
RecordedResults ==
  {<<9, Ea, dH, -37>> : Ea \in {63501, 64308, 64499}, dH \in {-12499, -11532, -11501}}

InitNotebook ==
  /\ FuncOff
  /\ experiments = <<>>
  /\ n1 = 0
  /\ n2 = 0
  /\ lsq_pc = "off"
  /\ lsq_parameters = <<>>
  /\ lsq_arguments = NoArguments
  /\ lsq_C_A_fit = <<>>
  /\ lsq_ret = <<>>
  /\ lsq_exc = ""
  /\ lsq_prev = <<>>
  /\ fit_pc = "idle"
  /\ parameters_0 = None
  /\ FitUnset
  /\ NotebookOff

NameError(names) ==
  /\ fit_exc' = "NameError"
  /\ bound' = bound \cup names

(* cells 1 and 2: the imports *)
RunImports ==
  /\ bound' = bound \cup {"np", "scipy", "plt"}
  /\ fit_exc' = ""
  /\ UNCHANGED <<fn_vars, lsq_vars, fit_pc, parameters_0, fit_x, fit_nfev, result, cov,
                 ier, stderr, optimized_parameters, standard_errors, perr_leastsq,
                 starting_guess, printed>>

(* cell 3: ExperimentData and plot_experiment *)
RunDefinitions ==
  /\ bound' = bound \cup {"namedtuple", "ExperimentData", "plot_experiment"}
  /\ fit_exc' = ""
  /\ UNCHANGED <<fn_vars, lsq_vars, fit_pc, parameters_0, fit_x, fit_nfev, result, cov,
                 ier, stderr, optimized_parameters, standard_errors, perr_leastsq,
                 starting_guess, printed>>

(* cell 4: the experiments list, then a plot of each experiment *)
RunExperiments ==
  /\ IF "ExperimentData" \notin bound
     THEN NameError({"array"}) /\ UNCHANGED experiments
     ELSE /\ experiments' = Literal_experiments
          /\ IF "plt" \notin bound
             THEN NameError({"array", "experiments"})
             ELSE fit_exc' = "" /\ bound' = bound \cup {"array", "experiments"}
  /\ UNCHANGED <<fn_vars, n1, n2, lsq_pc, lsq_parameters, lsq_arguments, lsq_C_A_fit,
                 lsq_ret, lsq_exc, lsq_prev, fit_pc, parameters_0, fit_x, fit_nfev,
                 result, cov, ier, stderr, optimized_parameters, standard_errors,
                 perr_leastsq, starting_guess, printed>>

(* cell 5: ParameterSet, starting_guess and the two placeholders; a report that
   was there is overwritten *)
RunGuess ==
  /\ IF "namedtuple" \notin bound
     THEN /\ NameError({})
          /\ UNCHANGED <<starting_guess, optimized_parameters, standard_errors, fit_pc>>
     ELSE /\ starting_guess' = Literal_starting_guess
          /\ fit_pc' = IF fit_pc = "reported" THEN "fitted" ELSE fit_pc
          /\ optimized_parameters' = ParameterSet(Zero, Zero, Zero, Zero)
          /\ standard_errors' = ParameterSet(Zero, Zero, Zero, Zero)
          /\ fit_exc' = ""
          /\ bound' = bound \cup {"ParameterSet", "starting_guess",
                                  "optimized_parameters", "standard_errors"}
  /\ UNCHANGED <<fn_vars, lsq_vars, parameters_0, fit_x, fit_nfev, result, cov,
                 ier, stderr, perr_leastsq, printed>>

FitCellNames ==
  {"exp", "func", "t", "tcombined", "C_A", "n1", "n2", "leastsqfunc", "parameters_0",
   "arguments", "result", "cov", "infodict", "mesg", "ier", "logA", "E_a", "dH", "dS"}

(* the fit cell: func, the data, leastsqfunc, the leastsq call, the plots *)
RunFitCell ==
  /\ IF "np" \notin bound
     THEN /\ NameError({"exp", "func"})
          /\ UNCHANGED <<n1, n2, lsq_arguments, parameters_0, result, cov, ier, fit_x,
                         fit_nfev, fit_pc>>
     ELSE IF "array" \notin bound
     THEN /\ NameError({"exp", "func", "t", "tcombined"})
          /\ UNCHANGED <<n1, n2, lsq_arguments, parameters_0, result, cov, ier, fit_x,
                         fit_nfev, fit_pc>>
     ELSE /\ n1' = 10
          /\ n2' = 20
          /\ lsq_arguments' = Literal_arguments(n1', n2')
          /\ parameters_0' = Literal_parameters_0
          /\ result' \in RecordedResults
          /\ cov' = RecordedCov
          /\ ier' \in 1 .. 4
          /\ fit_x' = result'
          /\ fit_nfev' = MaxFev
          /\ fit_pc' = "fitted"
          /\ fit_exc' = ""
          /\ bound' = bound \cup FitCellNames
  /\ UNCHANGED <<fn_vars, experiments, lsq_pc, lsq_parameters, lsq_C_A_fit, lsq_ret,
                 lsq_exc, lsq_prev, stderr, optimized_parameters, standard_errors,
                 perr_leastsq, starting_guess, printed>>

(* the cell after the fit *)
RunStderrCell ==
  /\ IF "np" \notin bound \/ "cov" \notin bound
     THEN /\ NameError({})
          /\ UNCHANGED <<fit_pc, stderr, optimized_parameters, standard_errors,
                         perr_leastsq, fit_x, fit_nfev, result, cov, ier>>
     ELSE IF "ParameterSet" \notin bound /\ cov # None
     THEN /\ stderr' = [i \in 1 .. 4 |-> np_sqrt(I(np_diag(cov)[i]))]
          /\ NameError({"stderr"})
          /\ UNCHANGED <<fit_pc, optimized_parameters, standard_errors, perr_leastsq,
                         fit_x, fit_nfev, result, cov, ier>>
     ELSE /\ StderrCellBody
          /\ bound' = bound \cup
               (IF cov = None THEN {}
                ELSE IF fit_pc' = "raised" THEN {"stderr", "optimized_parameters"}
                ELSE {"stderr", "optimized_parameters", "standard_errors", "error",
                      "perr_leastsq"})
  /\ UNCHANGED <<fn_vars, lsq_vars, parameters_0, starting_guess, printed>>

(* the last cell: print(starting_guess), print(optimized_parameters),
   print(standard_errors) *)
RunPrintCell ==
  /\ IF "starting_guess" \notin bound
     THEN NameError({}) /\ UNCHANGED printed
     ELSE /\ printed' = <<starting_guess, optimized_parameters, standard_errors>>
          /\ fit_exc' = ""
          /\ UNCHANGED bound
  /\ UNCHANGED <<fn_vars, lsq_vars, fit_pc, parameters_0, fit_x, fit_nfev, result, cov,
                 ier, stderr, optimized_parameters, standard_errors, perr_leastsq,
                 starting_guess>>

NextNotebook ==
  \/ RunImports \/ RunDefinitions \/ RunExperiments \/ RunGuess
  \/ RunFitCell \/ RunStderrCell \/ RunPrintCell

SpecNotebook == InitNotebook /\ [][NextNotebook]_vars

(* C15: one parameter ordering (logA, Ea, dH, dS) at every step of the fit.
   leastsq starts from parameters_0 position by position; leastsqfunc reads
   position k of the iterate as the k-th of func's logA, E_a, dH, dS; result is
   the iterate; entry k of stderr and of perr_leastsq comes from row and column
   k of cov; and field k of each reported ParameterSet comes from position k of
   result, respectively of stderr. *)
C15_OneOrdering ==
  /\ (fit_pc = "lmdif" /\ fit_nfev = 1) => fit_x = parameters_0
  /\ fit_pc = "lmdif" =>
       LET r == leastsqfunc(fit_x, lsq_arguments, n1, n2, Zero)
           a == lsq_arguments
       IN  \A i \in DOMAIN r.ret :
             LET e == IF i <= n1 THEN 1 ELSE IF i <= n2 THEN 2 ELSE 3
             IN  r.ret[i] =
                   Sub(I(a.C_A[i]),
                       func(I(a.tcombined[i]), I(a.C_0[e]), I(a.T[e]), I(fit_x[1]),
                            I(fit_x[2]), I(fit_x[3]), I(fit_x[4])))
  /\ result # None => result = fit_x
  /\ fit_pc = "reported" =>
       /\ \A k \in 1 .. 4 : stderr[k] = np_sqrt(I(cov[k][k]))
       /\ \A k \in 1 .. 4 : perr_leastsq[k] = np_sqrt(np_absolute(I(cov[k][k])))
       /\ optimized_parameters.logA = round(I(result[1]))
       /\ optimized_parameters.Ea = round(Div(I(result[2]), I(1000)))
       /\ optimized_parameters.dH = round(Div(I(result[3]), I(1000)))
       /\ optimized_parameters.dS = round(I(result[4]))
       /\ standard_errors.logA = round(stderr[1])
       /\ standard_errors.Ea = round(Div(stderr[2], I(1000)))
       /\ standard_errors.dH = round(Div(stderr[3], I(1000)))
       /\ standard_errors.dS = round(stderr[4])

(* a report in which the four standard errors differ from field to field, from
   a result that is not the starting point *)
C15_Witness ==
  /\ fit_pc = "reported"
  /\ ~InvalidInput
  /\ result # parameters_0
  /\ standard_errors.Ea # standard_errors.dH
  /\ standard_errors.logA # standard_errors.dS
  /\ \A k \in 1 .. 4 : IsFinite(Fields(standard_errors)[k])

(* Statements about the notebook *)
Bound(name) == name \in bound

(* C14: on the three literal experiments the fit from parameters_0 =
   [6, 45e3, -10e3, -50] converges (leastsq returns a covariance, ier in 1..4),
   the cell after it does not fail, and the reported ParameterSets are the
   recorded ones: Ea > 0 and four finite standard errors. *)
C14_LiteralFit ==
  /\ Bound("cov") =>
       /\ parameters_0 = Literal_parameters_0
       /\ lsq_arguments = Literal_arguments(10, 20)
       /\ ier \in 1 .. 4
       /\ cov # None
  /\ fit_pc # "raised"
  /\ fit_pc = "reported" =>
       /\ optimized_parameters = RecordedOptimized
       /\ standard_errors = RecordedStandardErrors
       /\ Less(Zero, optimized_parameters.Ea)
       /\ \A k \in 1 .. 4 : IsFinite(Fields(standard_errors)[k])
       /\ \A k \in 1 .. 4 : IsFinite(stderr[k]) /\ Less(Zero, stderr[k])

C14_Witness ==
  /\ fit_pc = "reported"
  /\ Bound("perr_leastsq")
  /\ printed = <<Literal_starting_guess, RecordedOptimized, RecordedStandardErrors>>
  /\ result[2] = 64308

(* C16: energies are in J/mol inside the fit and converted only at the two
   ends.  parameters_0 is starting_guess with Ea and dH multiplied by 1000 and
   logA and dS as they are; the reported records divide the Ea and dH entries,
   and only those, of result and of stderr by 1000; and reporting parameters_0
   itself gives starting_guess back. *)
C16_UnitsAtTheBoundary ==
  /\ (Bound("parameters_0") /\ Bound("starting_guess")) =>
       /\ I(parameters_0[1]) = starting_guess.logA
       /\ I(parameters_0[2]) = Mul(starting_guess.Ea, I(1000))
       /\ I(parameters_0[3]) = Mul(starting_guess.dH, I(1000))
       /\ I(parameters_0[4]) = starting_guess.dS
       /\ round(I(parameters_0[1])) = starting_guess.logA
       /\ round(Div(I(parameters_0[2]), I(1000))) = starting_guess.Ea
       /\ round(Div(I(parameters_0[3]), I(1000))) = starting_guess.dH
       /\ round(I(parameters_0[4])) = starting_guess.dS
  /\ fit_pc = "reported" =>
       /\ optimized_parameters.logA = round(I(result[1]))
       /\ optimized_parameters.Ea = round(Div(I(result[2]), I(1000)))
       /\ optimized_parameters.dH = round(Div(I(result[3]), I(1000)))
       /\ optimized_parameters.dS = round(I(result[4]))
       /\ standard_errors.logA = round(stderr[1])
       /\ standard_errors.Ea = round(Div(stderr[2], I(1000)))
       /\ standard_errors.dH = round(Div(stderr[3], I(1000)))
       /\ standard_errors.dS = round(stderr[4])

C16_Witness ==
  /\ fit_pc = "reported"
  /\ Bound("starting_guess")
  /\ parameters_0[2] = 45000 /\ starting_guess.Ea = I(45)
  /\ result[3] = -11532 /\ optimized_parameters.dH = I(-12)
  /\ stderr[2] = I(24049) /\ standard_errors.Ea = I(24)

(* C17: in every state, under any order of running the cells,
   optimized_parameters and standard_errors are undefined or come from a
   finished fit, never the all-zero ParameterSet(0,0,0,0), and starting_guess
   is what cell 5 made it. *)
C17_AsStated ==
  /\ Bound("optimized_parameters") => optimized_parameters # Placeholder
  /\ Bound("standard_errors") => standard_errors # Placeholder
  /\ Bound("starting_guess") => starting_guess = Literal_starting_guess

(* the part of C17 that is about starting_guess: no cell but cell 5 assigns it *)
C17_StartingGuessKept ==
  Bound("starting_guess") => starting_guess = Literal_starting_guess

(* C18: the data handed to leastsq is the data of the experiments list, slot
   for slot and in list order: tcombined is the experiments' times one after the
   other, C_A their cA arrays one after the other, C_0 and T their cA_start and
   T fields; 30 observations, 10 per experiment. *)
C18_ArgumentsAreTheExperiments ==
  (Bound("arguments") /\ Bound("experiments")) =>
    /\ Len(experiments) = 3
    /\ Len(lsq_arguments.tcombined) = 30
    /\ Len(lsq_arguments.C_A) = 30
    /\ Len(lsq_arguments.C_0) = 3
    /\ Len(lsq_arguments.T) = 3
    /\ \A e \in 1 .. 3 :
         /\ Len(experiments[e].times) = 10
         /\ Len(experiments[e].cA) = 10
         /\ lsq_arguments.C_0[e] = experiments[e].cA_start
         /\ lsq_arguments.T[e] = experiments[e].T
         /\ \A j \in 1 .. 10 :
              /\ lsq_arguments.tcombined[10 * (e - 1) + j] = experiments[e].times[j]
              /\ lsq_arguments.C_A[10 * (e - 1) + j] = experiments[e].cA[j]

C18_Witness ==
  /\ Bound("arguments") /\ Bound("experiments")
  /\ fit_pc = "fitted"
  /\ lsq_arguments.C_A[11] = 7230 /\ experiments[2].cA[1] = 7230
  /\ lsq_arguments.tcombined[30] = 100 /\ experiments[3].times[10] = 100

----------------------------------------------------------------------------
(* Quantities the statements about func are written in *)
Returned == fn_pc = "returned"
ArgG == DeltaG_RT(I(fn_args.T), I(fn_args.dH), I(fn_args.dS))
ArgC0 == I(fn_args.C_0)

(* kf = 10^logA * exp(-Ea/(R*T)) *)
kf(T, logA, E_a) == Mul(pow10(logA), exp(Div(Neg(E_a), Mul(I(R), T))))
(* k_total = kf * (1 + 1/Kc) *)
k_total(Kc, T, logA, E_a) == Mul(kf(T, logA, E_a), Add(One, Div(One, Kc)))
ArgKTotal(Kc) == k_total(Kc, I(fn_args.T), I(fn_args.logA), I(fn_args.E_a))

(* no exp or power of the call overflowed or underflowed *)
NoOverflow ==
  /\ Abs(fn_args.logA) < Huge
  /\ Abs(fn_args.E_a) < Huge
  /\ Abs(fn_args.dH) < Huge

(* C3 as stated: the constant term x of func is C0/(Kc + 1) with
   Kc = exp(-(dH - T*dS)/(R*T)) (checked on the calls in which nothing overflows). *)
C3_AsStated ==
  (Returned /\ NoOverflow) => fn_frame.x = Div(ArgC0, Add(exp(Neg(ArgG)), One))

(* C3, amended: the constant term x of func is C0/(Kc + 1) with
   Kc = exp(+(dH - T*dS)/(R*T)), so x is on the side of C0/2 that the sign of
   dH - T*dS gives (above it when negative, below it when positive), and of two
   inputs that differ in dH alone the one with the more negative dH - T*dS never
   has the smaller x. *)
C3_EquilibriumTerm ==
  Returned =>
    /\ fn_frame.x = Div(ArgC0, Add(exp(ArgG), One))
    /\ Less(ArgG, Zero) => Less(Div(ArgC0, I(2)), fn_frame.x)
    /\ Less(Zero, ArgG) => Less(fn_frame.x, Div(ArgC0, I(2)))
    /\ \A dH2 \in Energies :
         LET G2 == DeltaG_RT(I(fn_args.T), I(dH2), I(fn_args.dS))
         IN  (ExpOnGrid(G2) /\ Less(G2, ArgG)) =>
               Leq(fn_frame.x, func_x(ArgC0, I(fn_args.T), I(dH2), I(fn_args.dS)))

C3_Witness ==
  /\ Returned
  /\ Less(ArgG, Zero)
  /\ IsFinite(ArgG) /\ Abs(ArgG.n) <= MaxExpArg
  /\ Less(Div(ArgC0, I(2)), fn_frame.x) /\ Less(fn_frame.x, ArgC0)

(* C4 as stated: func's exponential is exp(-k_total * t) with
   k_total = kf * (1 + 1/Kc) and Kc = exp(-(dH - T*dS)/(R*T)) (checked where
   that exponent is on the grid). *)
C4_AsStated ==
  (Returned /\ NoOverflow) =>
    \A i \in DOMAIN fn_args.t :
      LET arg == Neg(Mul(ArgKTotal(exp(Neg(ArgG))), I(fn_args.t[i])))
      IN  ExpOnGrid(arg) => fn_frame.exponential[i] = exp(arg)

(* C4, amended: func's exponential is exp(-k_total * t) with
   k_total = kf * (1 + 1/Kc), kf = 10^logA * exp(-Ea/(R*T)) and
   Kc = exp(+(dH - T*dS)/(R*T)), and this Kc is the one of the equilibrium
   term: x = C0/(Kc + 1) and C_1 = C0 - x. *)
C4_RateTerm ==
  Returned =>
    LET Kc == exp(ArgG)
    IN  /\ \A i \in DOMAIN fn_args.t :
             fn_frame.exponential[i] = exp(Neg(Mul(ArgKTotal(Kc), I(fn_args.t[i]))))
        /\ fn_frame.x = Div(ArgC0, Add(Kc, One))
        /\ fn_frame.C_1 = Sub(ArgC0, fn_frame.x)

C4_Witness ==
  /\ Returned
  /\ IsFinite(ArgG) /\ ArgG.n # 0 /\ Abs(ArgG.n) <= MaxExpArg
  /\ fn_args.t[2] > 0
  /\ Less(Zero, fn_frame.exponential[2]) /\ Less(fn_frame.exponential[2], One)

(* C5: func at t = 0 returns exactly C0, for every C0 > 0, T > 0 and every
   parameter vector (the first entry of every time vector is 0). *)
C5_AsStated ==
  Returned => (fn_args.t[1] = 0 /\ fn_ret[1] = ArgC0)

(* C5 where nothing overflows: func at t = 0 returns exactly C0 *)
C5_NoOverflowCase ==
  (Returned /\ NoOverflow) => (fn_args.t[1] = 0 /\ fn_ret[1] = ArgC0)

(* the distance of a from b *)
Dist(a, b) == IF Less(a, b) THEN Sub(b, a) ELSE Sub(a, b)
Between(v, a, b) == (Leq(a, v) /\ Leq(v, b)) \/ (Leq(b, v) /\ Leq(v, a))

Monotonic ==
  /\ \A i \in DOMAIN fn_ret :
       /\ IsFinite(fn_ret[i])
       /\ Between(fn_ret[i], ArgC0, fn_frame.x)
  /\ \A i, j \in DOMAIN fn_ret :
       fn_args.t[i] <= fn_args.t[j] =>
         Leq(Dist(fn_ret[j], fn_frame.x), Dist(fn_ret[i], fn_frame.x))
  /\ \A i, j \in DOMAIN fn_ret :
       fn_args.t[i] <= fn_args.t[j] =>
         IF Leq(fn_frame.x, ArgC0) THEN Leq(fn_ret[j], fn_ret[i])
                                   ELSE Leq(fn_ret[i], fn_ret[j])

(* C6: with k_total > 0, func is finite at every t >= 0, monotonic in t (never
   further from C_A_eq = x at a later time, no change of direction) and between
   C0 and C_A_eq. *)
C6_AsStated ==
  (Returned /\ Less(Zero, ArgKTotal(exp(ArgG)))) => Monotonic

(* C6 where k_total is a positive finite number *)
C6_NoOverflowCase ==
  (Returned /\ Less(Zero, ArgKTotal(exp(ArgG))) /\ IsFinite(ArgKTotal(exp(ArgG))))
    => Monotonic

====
